---- MODULE Spec2Model ----
(***************************************************************************)
(* State-machine model of SakayDB (src/sakaydb.py): a store of three CSV   *)
(* tables (drivers.csv, locations.csv, trips.csv) in one data directory,   *)
(* mutated by add_trip and delete_trip and read by export_data.            *)
(*                                                                         *)
(* Text is a sequence of one-character strings, so that str.strip,         *)
(* str.split(', '), str.lower and str.title are computed, not assumed.     *)
(* Real numbers are integers counting thousandths (100.001 is 100001).     *)
(* A table is [exists, rows]: exists is os.path.exists of its file, rows   *)
(* the data rows in file order.  pandas' read_csv / to_csv are the load /  *)
(* save collaborator and carry the rows unchanged.                         *)
(***************************************************************************)
EXTENDS Integers, Sequences, FiniteSets, TLC

\* ------------------------------------------------------------------------
\* Bounds
\* ------------------------------------------------------------------------
MaxAdds == 3        \* successful add_trip calls in one behaviour
MaxDeletes == 1     \* successful delete_trip calls in one behaviour
MaxBatch == 2       \* items of a list given to add_trips

\* ------------------------------------------------------------------------
\* Text primitives (Python str methods used by add_trip)
\* ------------------------------------------------------------------------
Lowers == <<"a", "b", "c", "d">>
Uppers == <<"A", "B", "C", "D">>
Whitespace == {" "}

IsLowerChar(c) == \E i \in 1..Len(Lowers) : Lowers[i] = c
IsUpperChar(c) == \E i \in 1..Len(Uppers) : Uppers[i] = c
IsCased(c) == IsLowerChar(c) \/ IsUpperChar(c)

LowerChar(c) ==
    IF IsUpperChar(c)
    THEN Lowers[CHOOSE i \in 1..Len(Uppers) : Uppers[i] = c]
    ELSE c

UpperChar(c) ==
    IF IsLowerChar(c)
    THEN Uppers[CHOOSE i \in 1..Len(Lowers) : Lowers[i] = c]
    ELSE c

\* str.lower()
lower(s) == [i \in 1..Len(s) |-> LowerChar(s[i])]

\* str.title(): a cased character is upper-cased when it follows an uncased
\* one (or starts the string) and lower-cased otherwise.
RECURSIVE TitleFrom(_, _)
TitleFrom(s, prevCased) ==
    IF s = <<>> THEN <<>>
    ELSE <<IF prevCased THEN LowerChar(Head(s)) ELSE UpperChar(Head(s))>>
         \o TitleFrom(Tail(s), IsCased(Head(s)))

title(s) == TitleFrom(s, FALSE)

\* str.strip()
RECURSIVE LStrip(_)
LStrip(s) ==
    IF s # <<>> /\ Head(s) \in Whitespace THEN LStrip(Tail(s)) ELSE s

RECURSIVE RStrip(_)
RStrip(s) ==
    IF s # <<>> /\ s[Len(s)] \in Whitespace
    THEN RStrip(SubSeq(s, 1, Len(s) - 1))
    ELSE s

strip(s) == RStrip(LStrip(s))

\* str.split(', '): the pieces between occurrences of comma-space.
RECURSIVE SplitFrom(_, _)
SplitFrom(s, cur) ==
    IF s = <<>> THEN <<cur>>
    ELSE IF Len(s) >= 2 /\ s[1] = "," /\ s[2] = " "
         THEN <<cur>> \o SplitFrom(SubSeq(s, 3, Len(s)), <<>>)
         ELSE SplitFrom(Tail(s), Append(cur, Head(s)))

split(s) == SplitFrom(s, <<>>)

\* ------------------------------------------------------------------------
\* Scalar parsing: pd.to_datetime(format='%H:%M:%S,%d-%m-%Y'), int(), float()
\* on the literals the model passes in.  A literal missing from a table
\* makes the conversion raise.
\* ------------------------------------------------------------------------
\* instants are minutes since 00:00:00,01-01-2020
DateTimeTable ==
    { <<"08:00:00,01-01-2020", 480>>,
      <<"09:30:00,01-01-2020", 570>>,
      <<"07:00:00,02-01-2020", 1860>>,
      <<"08:00:00,08-01-2020", 10560>> }

IntTable == { <<"1", 1>> }

\* thousandths
FloatTable ==
    { <<"50.0", 50000>>, <<"100.0", 100000>>, <<"100.001", 100001>>,
      <<"1", 1000>>, <<"2", 2000>> }

Parses(table, s) == \E p \in table : p[1] = s
Parse(table, s) == (CHOOSE p \in table : p[1] = s)[2]

\* ------------------------------------------------------------------------
\* Inputs
\* ------------------------------------------------------------------------
\* driver: "ab, c", "AB, C" (the same driver in another case), "d, a"
\* (another driver); "abc" has no separator
DriverInputs ==
    { <<"a", "b", ",", " ", "c">>,
      <<"A", "B", ",", " ", "C">>,
      <<"d", ",", " ", "a">> }
BadDriver == <<"a", "b", "c">>

\* location names: pickups "ab", "cd"; dropoffs "AB", " CD"
PickupInputs == { <<"a", "b">>, <<"c", "d">> }
DropoffInputs == { <<"A", "B">>, <<" ", "C", "D">> }

FareInputs == { "50.0", "100.0", "100.001" }
BadDateTime == "01-01-2020 08:00"
BadInt == "x"
BadFloat == "abc"

BaseArgs ==
    [ driver |-> <<"a", "b", ",", " ", "c">>,
      pickup_datetime |-> "08:00:00,01-01-2020",
      dropoff_datetime |-> "09:30:00,01-01-2020",
      passenger_count |-> "1",
      pickup_loc_name |-> <<"a", "b">>,
      dropoff_loc_name |-> <<"A", "B">>,
      trip_distance |-> "50.0",
      fare_amount |-> "100.0" ]

\* The malformed requests: the base request with one field spoiled, one for
\* each validated field, and one with another driver, other locations and a
\* spoiled fare.
BadArgs ==
    { [BaseArgs EXCEPT !.driver = BadDriver],
      [BaseArgs EXCEPT !.pickup_datetime = BadDateTime],
      [BaseArgs EXCEPT !.dropoff_datetime = BadDateTime],
      [BaseArgs EXCEPT !.passenger_count = BadInt],
      [BaseArgs EXCEPT !.trip_distance = BadFloat],
      [BaseArgs EXCEPT !.fare_amount = BadFloat],
      [BaseArgs EXCEPT !.driver = <<"d", ",", " ", "a">>,
                       !.pickup_loc_name = <<"c", "d">>,
                       !.dropoff_loc_name = <<" ", "C", "D">>,
                       !.fare_amount = BadFloat] }

\* The requests: the base request with its driver and fare varied, the base
\* request with its two locations varied, and two malformed requests.
TripArgs ==
    { [BaseArgs EXCEPT !.driver = d, !.fare_amount = f] :
          d \in DriverInputs, f \in FareInputs }
    \cup { [BaseArgs EXCEPT !.pickup_loc_name = p, !.dropoff_loc_name = q] :
          p \in PickupInputs, q \in DropoffInputs }
    \cup { [BaseArgs EXCEPT !.driver = BadDriver],
           [BaseArgs EXCEPT !.pickup_datetime = BadDateTime] }

\* The requests of the specifications that explore more calls per state:
\* four trips no two of which are duplicates, and the malformed requests.
FewArgs ==
    { BaseArgs,
      [BaseArgs EXCEPT !.fare_amount = "50.0"],
      [BaseArgs EXCEPT !.driver = <<"d", ",", " ", "a">>,
                       !.pickup_datetime = "09:30:00,01-01-2020"],
      [BaseArgs EXCEPT !.pickup_loc_name = <<"c", "d">>,
                       !.dropoff_loc_name = <<" ", "C", "D">>] }
    \cup BadArgs

\* the keys add_trips reads from each item (lines 244-251)
TripKeys ==
    { "driver", "pickup_datetime", "dropoff_datetime", "passenger_count",
      "pickup_loc_name", "dropoff_loc_name", "trip_distance", "fare_amount" }

\* The items of the lists given to add_trips: the base request; the same
\* with another pickup location; the same with a fare within tolerance; a
\* request with a spoiled fare; a dictionary without the key fare_amount.
BatchItems ==
    { BaseArgs,
      [BaseArgs EXCEPT !.pickup_loc_name = <<"c", "d">>],
      [BaseArgs EXCEPT !.fare_amount = "100.001"],
      [BaseArgs EXCEPT !.fare_amount = BadFloat],
      [k \in TripKeys \ {"fare_amount"} |-> BaseArgs[k]] }

\* the lists of at most MaxBatch items
Batches ==
    UNION { [1..n -> BatchItems] : n \in 0..MaxBatch }

TripIds == 1..MaxAdds

\* Python's None as an argument
None == "None"

\* one keyword argument of search_trips: a single value, or a tuple of values
Scalar(key, v) == [key |-> key, type |-> "scalar", value |-> <<v>>]
Tuple(key, vs) == [key |-> key, type |-> "tuple", value |-> vs]

\* The keyword arguments tried, one at a time: a single value and ranges,
\* closed, half open and open, on a number and on a date; an unknown key; a
\* value that cannot be converted; tuples of one and of three values.
Criteria ==
    { Scalar("driver_id", "1"),
      Scalar("fare_amount", "100.0"),
      Tuple("fare_amount", <<"50.0", "100.0">>),
      Tuple("fare_amount", <<"100.0", None>>),
      Tuple("fare_amount", <<None, "50.0">>),
      Tuple("fare_amount", <<None, None>>),
      Scalar("pickup_datetime", "09:30:00,01-01-2020"),
      Tuple("pickup_datetime", <<"09:30:00,01-01-2020", None>>),
      Tuple("dropoff_datetime", <<None, "09:30:00,01-01-2020">>),
      Scalar("color", "1"),
      Scalar("fare_amount", BadFloat),
      Tuple("pickup_datetime", <<BadDateTime, None>>),
      Tuple("fare_amount", <<"100.0">>),
      Tuple("fare_amount", <<"50.0", "100.0", "100.001">>) }

\* the stat argument of generate_statistics: the four kinds and another word
Stats == { "trip", "passenger", "driver", "all", "week" }

\* The date_range argument of generate_odmatrix: the default None; tuples of
\* two bounds, closed, half open and open; tuples of one and of three
\* values; a tuple with a value that is no date; a list, which is no tuple.
DateRanges ==
    { [type |-> "None", value |-> <<>>],
      [type |-> "tuple", value |-> <<"09:30:00,01-01-2020", None>>],
      [type |-> "tuple", value |-> <<None, "08:00:00,01-01-2020">>],
      [type |-> "tuple",
       value |-> <<"08:00:00,01-01-2020", "09:30:00,01-01-2020">>],
      [type |-> "tuple", value |-> <<None, None>>],
      [type |-> "tuple", value |-> <<"08:00:00,01-01-2020">>],
      [type |-> "tuple",
       value |-> <<"08:00:00,01-01-2020", "09:30:00,01-01-2020", None>>],
      [type |-> "tuple", value |-> <<BadDateTime, None>>],
      [type |-> "list",
       value |-> <<"08:00:00,01-01-2020", "09:30:00,01-01-2020">>] }

\* **kwargs, in the order the keywords are passed: none; each of the
\* criteria alone; two criteria on different keys, both well formed, or the
\* second with an unknown key, a value that cannot be converted or a tuple of
\* one value
Searches ==
    { <<>> }
    \cup { <<c>> : c \in Criteria }
    \cup { << Scalar("driver_id", "1"), c >> :
             c \in { Tuple("fare_amount", <<"100.0", None>>),
                     Tuple("pickup_datetime", <<"09:30:00,01-01-2020", None>>),
                     Scalar("color", "1"),
                     Scalar("fare_amount", BadFloat),
                     Tuple("fare_amount", <<"100.0">>) } }
    \cup { << Tuple("fare_amount", <<"50.0", "100.0">>),
              Tuple("dropoff_datetime", <<None, "09:30:00,01-01-2020">>) >> }

\* The requests of the specification of the reads over several days: the
\* base request (a Wednesday); the same later that day with another fare;
\* the same a week later; a trip between two other places the next day (a
\* Thursday); a trip from a third place that day.
DatedArgs ==
    { BaseArgs,
      [BaseArgs EXCEPT !.pickup_datetime = "09:30:00,01-01-2020",
                       !.fare_amount = "50.0"],
      [BaseArgs EXCEPT !.pickup_datetime = "08:00:00,08-01-2020"],
      [BaseArgs EXCEPT !.pickup_datetime = "07:00:00,02-01-2020",
                       !.pickup_loc_name = <<"c", "d">>,
                       !.dropoff_loc_name = <<" ", "C", "D">>],
      [BaseArgs EXCEPT !.pickup_datetime = "07:00:00,02-01-2020",
                       !.pickup_loc_name = <<"b", "a">>] }

\* the date ranges tried on them: the default None; a range open above, one
\* open below and one closed on later days; a tuple of one value
DatedRanges ==
    { [type |-> "None", value |-> <<>>],
      [type |-> "tuple", value |-> <<"09:30:00,01-01-2020", None>>],
      [type |-> "tuple", value |-> <<None, "08:00:00,01-01-2020">>],
      [type |-> "tuple",
       value |-> <<"07:00:00,02-01-2020", "08:00:00,08-01-2020">>],
      [type |-> "tuple", value |-> <<"08:00:00,01-01-2020">>] }

\* the searches tried on them: every trip ordered by one date, by the fare
\* and then a date, by a date and then the fare; the trips of a driver; an
\* unknown key
DatedSearches ==
    { << Tuple("pickup_datetime", <<None, None>>) >>,
      << Tuple("dropoff_datetime", <<None, None>>) >>,
      << Tuple("fare_amount", <<None, None>>),
         Tuple("pickup_datetime", <<None, None>>) >>,
      << Tuple("pickup_datetime", <<"08:00:00,01-01-2020", None>>),
         Tuple("fare_amount", <<None, None>>) >>,
      << Scalar("driver_id", "1") >>,
      << Scalar("color", "1") >> }

\* ------------------------------------------------------------------------
\* State
\* ------------------------------------------------------------------------
VARIABLES
    drivers,     \* drivers.csv   : [exists, rows of (driver_id, given_name, last_name)]
    locations,   \* locations.csv : [exists, rows of (location_id, loc_name)]
    trips,       \* trips.csv     : [exists, rows of the nine trip columns]
    ret,         \* outcome of the last call: what it returned or raised
    calls,       \* history: one entry per add_trip call that returned an id
    ndel,        \* history: number of delete_trip calls that returned
    inflight     \* the add_trip calls that run concurrently: where each is,
                 \* and the frames it holds in memory

vars == <<drivers, locations, trips, ret, calls, ndel, inflight>>

Absent == [exists |-> FALSE, rows |-> <<>>]
Table(rows) == [exists |-> TRUE, rows |-> rows]

NoRet ==
    [ op |-> "none", status |-> "none", trip_id |-> 0, driver_id |-> 0,
      pickup_id |-> 0, dropoff_id |-> 0, trip |-> <<>>,
      args |-> <<>>, trip_ids |-> <<>>, warnings |-> <<>>,
      type |-> "none", result |-> <<>>, columns |-> <<>> ]

\* the two callers of the concurrent add_trip calls
Procs == {"p", "q"}

\* a caller that has not called yet
Idle ==
    [ pc |-> "idle", args |-> <<>>, plan |-> <<>>, status |-> "none",
      trip_id |-> 0, alone |-> TRUE ]

\* the three files as one value
Store == [drivers |-> drivers, locations |-> locations, trips |-> trips]

Init ==
    /\ drivers = Absent
    /\ locations = Absent
    /\ trips = Absent
    /\ ret = NoRet
    /\ calls = <<>>
    /\ ndel = 0
    /\ inflight = [p \in Procs |-> Idle]

\* ------------------------------------------------------------------------
\* add_trip: validation (lines 67-84)
\* ------------------------------------------------------------------------
DriverName(a) == split(strip(a.driver))

ValidArgs(a) ==
    /\ Len(DriverName(a)) = 2
    /\ Parses(DateTimeTable, a.pickup_datetime)
    /\ Parses(DateTimeTable, a.dropoff_datetime)
    /\ Parses(IntTable, a.passenger_count)
    /\ Parses(FloatTable, a.trip_distance)
    /\ Parses(FloatTable, a.fare_amount)

\* ------------------------------------------------------------------------
\* add_trip: driver resolution (lines 91-112)
\* ------------------------------------------------------------------------
\* a lookup that forgets str.lower()
MatchDriverExact(rows, driver_name) ==
    LET Hit(r) == /\ r.last_name = driver_name[1]
                  /\ r.given_name = driver_name[2]
    IN SelectSeq(rows, Hit)

MatchDriver(rows, driver_name) ==
    LET Hit(r) == /\ lower(r.last_name) = lower(driver_name[1])
                  /\ lower(r.given_name) = lower(driver_name[2])
    IN SelectSeq(rows, Hit)

DriverRow(id, driver_name) ==
    [ driver_id |-> id,
      given_name |-> title(driver_name[2]),
      last_name |-> title(driver_name[1]) ]

\* a resolution that starts a new frame for a driver it does not find
ResolveDriverOverwrite(tbl, driver_name) ==
    IF tbl.exists
    THEN LET df_tripdriver == MatchDriver(tbl.rows, driver_name)
         IN IF Len(df_tripdriver) = 0
            THEN LET driver_id == tbl.rows[Len(tbl.rows)].driver_id + 1
                 IN [ id |-> driver_id,
                      rows |-> <<DriverRow(driver_id, driver_name)>> ]
            ELSE [ id |-> df_tripdriver[1].driver_id, rows |-> tbl.rows ]
    ELSE [ id |-> 1, rows |-> <<DriverRow(1, driver_name)>> ]

\* the driver id the trip gets and the in-memory df_drivers
ResolveDriver(tbl, driver_name) ==
    IF tbl.exists
    THEN LET df_tripdriver == MatchDriver(tbl.rows, driver_name)
         IN IF Len(df_tripdriver) = 0
            THEN LET driver_id == tbl.rows[Len(tbl.rows)].driver_id + 1
                 IN [ id |-> driver_id,
                      rows |-> Append(tbl.rows, DriverRow(driver_id, driver_name)) ]
            ELSE [ id |-> df_tripdriver[1].driver_id, rows |-> tbl.rows ]
    ELSE [ id |-> 1, rows |-> <<DriverRow(1, driver_name)>> ]

\* ------------------------------------------------------------------------
\* add_trip: location resolution (lines 114-146).  The same block runs once
\* for the pickup and once for the dropoff, each starting from the file.
\* ------------------------------------------------------------------------
\* a lookup that forgets str.lower()
MatchLocationExact(rows, loc_name) ==
    LET Hit(r) == r.loc_name = loc_name
    IN SelectSeq(rows, Hit)

MatchLocation(rows, loc_name) ==
    LET Hit(r) == lower(r.loc_name) = lower(loc_name)
    IN SelectSeq(rows, Hit)

LocationRow(id, loc_name) ==
    [ location_id |-> id, loc_name |-> title(loc_name) ]

\* the location id the trip gets and the in-memory df_locs
ResolveLocation(tbl, loc_name) ==
    IF tbl.exists
    THEN LET df_match == MatchLocation(tbl.rows, loc_name)
         IN IF Len(df_match) = 0
            THEN LET location_id == tbl.rows[Len(tbl.rows)].location_id + 1
                 IN [ id |-> location_id,
                      rows |-> Append(tbl.rows, LocationRow(location_id, loc_name)) ]
            ELSE [ id |-> df_match[1].location_id, rows |-> tbl.rows ]
    ELSE [ id |-> 1, rows |-> <<LocationRow(1, loc_name)>> ]

\* ------------------------------------------------------------------------
\* add_trip: the ledger step (lines 148-187)
\* ------------------------------------------------------------------------
Abs(x) == IF x < 0 THEN -x ELSE x

\* np.isclose(a, b) with numpy's defaults: |a - b| <= 1e-8 + 1e-5 * |b|.
\* In thousandths this is 100000 * |a - b| <= 1 + |b|.
IsClose(a, b) == Abs(a - b) <= (1 + Abs(b)) \div 100000

\* df_trip: the ledger rows the new trip t duplicates (lines 151-163)
MatchTrip(rows, t) ==
    LET Hit(r) == /\ r.driver_id = t.driver_id
                  /\ r.pickup_datetime = t.pickup_datetime
                  /\ r.dropoff_datetime = t.dropoff_datetime
                  /\ r.passenger_count = t.passenger_count
                  /\ r.pickup_loc_id = t.pickup_loc_id
                  /\ r.dropoff_loc_id = t.dropoff_loc_id
                  /\ IsClose(r.trip_distance, t.trip_distance)
                  /\ IsClose(r.fare_amount, t.fare_amount)
    IN SelectSeq(rows, Hit)

TripRow(id, t) ==
    [ trip_id |-> id,
      driver_id |-> t.driver_id,
      pickup_datetime |-> t.pickup_datetime,
      dropoff_datetime |-> t.dropoff_datetime,
      passenger_count |-> t.passenger_count,
      pickup_loc_id |-> t.pickup_loc_id,
      dropoff_loc_id |-> t.dropoff_loc_id,
      trip_distance |-> t.trip_distance,
      fare_amount |-> t.fare_amount ]

\* an id rule that counts the rows instead of reading the last id
NextTripIdCount(rows) == Len(rows) + 1

\* an id rule that hands out the smallest id no row carries
NextTripIdFillGap(rows) ==
    CHOOSE k \in 1..(Len(rows) + 1) :
        /\ \A i \in 1..Len(rows) : rows[i].trip_id # k
        /\ \A m \in 1..(k - 1) : \E i \in 1..Len(rows) : rows[i].trip_id = m

\* an id taken from the first row of the ledger instead of the last
NextTripIdFirst(rows) == rows[1].trip_id + 1

\* df_trips.loc[df_trips.shape[0] - 1, 'trip_id'] + 1 (line 165), for a
\* ledger with at least one row
NextTripId(rows) == rows[Len(rows)].trip_id + 1

\* status "ok" with the new id and ledger; "duplicate" for the raise of line
\* 173; "KeyError" when line 165 looks up row label -1 of a ledger file that
\* holds no rows (an exception that is not a SakayDBError; nothing is
\* written).
AppendTrip(tbl, t) ==
    IF tbl.exists
    THEN IF Len(MatchTrip(tbl.rows, t)) = 0
         THEN IF Len(tbl.rows) = 0
              THEN [ status |-> "KeyError", id |-> 0, rows |-> tbl.rows ]
              ELSE LET trip_id == NextTripId(tbl.rows)
                   IN [ status |-> "ok", id |-> trip_id,
                        rows |-> Append(tbl.rows, TripRow(trip_id, t)) ]
         ELSE [ status |-> "duplicate", id |-> 0, rows |-> tbl.rows ]
    ELSE [ status |-> "ok", id |-> 1, rows |-> <<TripRow(1, t)>> ]

\* ------------------------------------------------------------------------
\* add_trip as a whole (lines 67-193): the outcome and the three files
\* after the call
\* ------------------------------------------------------------------------
\* the trip's columns but trip_id, from the validated arguments and the ids
NewTrip(a, driver_id, pickup_id, dropoff_id) ==
    [ driver_id |-> driver_id,
      pickup_datetime |-> a.pickup_datetime,
      dropoff_datetime |-> a.dropoff_datetime,
      passenger_count |-> Parse(IntTable, a.passenger_count),
      pickup_loc_id |-> pickup_id,
      dropoff_loc_id |-> dropoff_id,
      trip_distance |-> Parse(FloatTable, a.trip_distance),
      fare_amount |-> Parse(FloatTable, a.fare_amount) ]

\* a raise out of add_trip on the files db: nothing is written
Raised(db, status) ==
    [ status |-> status, trip_id |-> 0, driver_id |-> 0, pickup_id |-> 0,
      dropoff_id |-> 0, trip |-> <<>>,
      drivers |-> db.drivers, locations |-> db.locations, trips |-> db.trips ]

\* a persist step that rewrites the ledger with the new row before the
\* duplicate is raised
PersistBeforeRaise(db, df_drivers, pickup, dropoff, t, df_trips) ==
    IF df_trips.status = "ok"
    THEN [ status |-> "ok", trip_id |-> df_trips.id,
           driver_id |-> df_drivers.id, pickup_id |-> pickup.id,
           dropoff_id |-> dropoff.id, trip |-> <<t>>,
           drivers |-> Table(df_drivers.rows),
           locations |-> Table(dropoff.rows),
           trips |-> Table(df_trips.rows) ]
    ELSE [ Raised(db, df_trips.status) EXCEPT
             !.driver_id = df_drivers.id, !.pickup_id = pickup.id,
             !.dropoff_id = dropoff.id, !.trip = <<t>>,
             !.drivers = Table(df_drivers.rows),
             !.locations = Table(dropoff.rows),
             !.trips = Table(Append(df_trips.rows,
                                    TripRow(Len(df_trips.rows) + 1, t))) ]

\* lines 164-193: the raise of the ledger step leaves the files alone;
\* otherwise the three frames are written and the id is returned
Persist(db, df_drivers, pickup, dropoff, t, df_trips) ==
    IF df_trips.status # "ok"
    THEN [ Raised(db, df_trips.status) EXCEPT
             !.driver_id = df_drivers.id, !.pickup_id = pickup.id,
             !.dropoff_id = dropoff.id, !.trip = <<t>> ]
    ELSE [ status |-> "ok", trip_id |-> df_trips.id,
           driver_id |-> df_drivers.id, pickup_id |-> pickup.id,
           dropoff_id |-> dropoff.id, trip |-> <<t>>,
           drivers |-> Table(df_drivers.rows),
           locations |-> Table(dropoff.rows),
           trips |-> Table(df_trips.rows) ]

\* lines 86-193, for validated arguments, on the files db
AddValidTrip(db, a) ==
    LET df_drivers == ResolveDriver(db.drivers, DriverName(a))
        pickup == ResolveLocation(db.locations, strip(a.pickup_loc_name))
        \* line 133 reads locations.csv again: df_locs of the pickup block
        \* is dropped, and df_locs of the dropoff block is what line 191 saves
        dropoff == ResolveLocation(db.locations, strip(a.dropoff_loc_name))
        t == NewTrip(a, df_drivers.id, pickup.id, dropoff.id)
    IN Persist(db, df_drivers, pickup, dropoff, t, AppendTrip(db.trips, t))

\* an add_trip that stores the pickup location before it validates
AddTripResultLate(db, a) ==
    IF ~ValidArgs(a)
    THEN [ Raised(db, "invalid") EXCEPT
             !.locations =
                 Table(ResolveLocation(db.locations,
                                       strip(a.pickup_loc_name)).rows) ]
    ELSE AddValidTrip(db, a)

\* the outcome of add_trip(a) on the files db and the files after it
AddTripResult(db, a) ==
    IF ~ValidArgs(a) THEN Raised(db, "invalid") ELSE AddValidTrip(db, a)

\* what a history entry keeps of a successful call: the id it returned, the
\* names it was given (stripped) and the ledger row it wrote
CallEntry(a, r) ==
    [ trip_id |-> r.trip_id,
      row |-> TripRow(r.trip_id, r.trip[1]),
      driver_name |-> DriverName(a),
      pickup_loc_name |-> strip(a.pickup_loc_name),
      dropoff_loc_name |-> strip(a.dropoff_loc_name) ]

\* (the outcome is bound by \E over a singleton so that it is computed once)
add_trip(a) ==
    /\ Len(calls) < MaxAdds
    /\ \E r \in {AddTripResult(Store, a)} :
          /\ drivers' = r.drivers
          /\ locations' = r.locations
          /\ trips' = r.trips
          /\ ret' = [ NoRet EXCEPT
                        !.op = "add_trip", !.status = r.status,
                        !.trip_id = r.trip_id, !.driver_id = r.driver_id,
                        !.pickup_id = r.pickup_id, !.dropoff_id = r.dropoff_id,
                        !.trip = r.trip ]
          /\ calls' = IF r.status = "ok"
                      THEN Append(calls, CallEntry(a, r))
                      ELSE calls
    /\ UNCHANGED <<ndel, inflight>>

\* ------------------------------------------------------------------------
\* add_trip run by concurrent callers, in two steps: the reads of the three
\* files with everything computed from them (lines 67-187), and the writes
\* of the three frames held in memory (lines 189-193)
\* ------------------------------------------------------------------------
\* the requests of the concurrent calls: the base request; the same from a
\* new pickup location; the same with another fare; a malformed request
RaceArgs ==
    { BaseArgs,
      [BaseArgs EXCEPT !.pickup_loc_name = <<"c", "d">>],
      [BaseArgs EXCEPT !.fare_amount = "50.0"],
      [BaseArgs EXCEPT !.fare_amount = BadFloat] }

\* Caller p validates a, reads the files and computes its frames; a raise
\* ends the call here.  alone records that no other call was between its
\* reads and its writes at that moment.
ReadTables(p, a) ==
    /\ inflight[p].pc = "idle"
    /\ \E r \in {AddTripResult(Store, a)} :
          IF r.status = "ok"
          THEN /\ inflight' =
                     [ inflight EXCEPT ![p] =
                         [ pc |-> "read", args |-> <<a>>, plan |-> <<r>>,
                           status |-> "none", trip_id |-> 0,
                           alone |-> \A q \in Procs \ {p} :
                                        inflight[q].pc # "read" ] ]
               /\ UNCHANGED ret
          ELSE /\ inflight' =
                     [ inflight EXCEPT ![p] =
                         [ pc |-> "done", args |-> <<a>>, plan |-> <<>>,
                           status |-> r.status, trip_id |-> 0,
                           alone |-> \A q \in Procs \ {p} :
                                        inflight[q].pc # "read" ] ]
               /\ ret' = [ NoRet EXCEPT
                             !.op = "add_trip", !.status = r.status,
                             !.driver_id = r.driver_id,
                             !.pickup_id = r.pickup_id,
                             !.dropoff_id = r.dropoff_id, !.trip = r.trip ]
    /\ UNCHANGED <<drivers, locations, trips, calls, ndel>>

\* Caller p writes its three frames over the files and returns its trip_id
WriteTables(p) ==
    /\ inflight[p].pc = "read"
    /\ \E r \in {inflight[p].plan[1]} :
          /\ drivers' = r.drivers
          /\ locations' = r.locations
          /\ trips' = r.trips
          /\ ret' = [ NoRet EXCEPT
                        !.op = "add_trip", !.status = "ok",
                        !.trip_id = r.trip_id, !.driver_id = r.driver_id,
                        !.pickup_id = r.pickup_id,
                        !.dropoff_id = r.dropoff_id, !.trip = r.trip ]
          /\ calls' = Append(calls, CallEntry(inflight[p].args[1], r))
          /\ inflight' =
                [ inflight EXCEPT ![p] =
                    [ @ EXCEPT !.pc = "done", !.status = "ok",
                               !.trip_id = r.trip_id ] ]
    /\ UNCHANGED ndel

\* ------------------------------------------------------------------------
\* add_trips (lines 241-258)
\* ------------------------------------------------------------------------
\* the line printed for a skipped item: its index and the error's text
Warning(i, text) == [index |-> i, text |-> text]

\* the text of the SakayDBError add_trip raised (lines 70, 84, 173); an
\* exception of another class gets the text of line 257
WarningText(status) ==
    IF status = "duplicate"
    THEN "is already in the database"
    ELSE "has invalid or incomplete information"

\* a loop body that numbers the items from one
AddTripsStepFromOne(acc, i, trip) ==
    IF ~(TripKeys \subseteq DOMAIN trip)
    THEN [acc EXCEPT !.warnings = Append(@, Warning(i + 1, WarningText("KeyError")))]
    ELSE LET r == AddTripResult(acc.db, trip)
         IN IF r.status = "ok"
            THEN [ db |-> [ drivers |-> r.drivers, locations |-> r.locations,
                            trips |-> r.trips ],
                   trip_ids |-> Append(acc.trip_ids, r.trip_id),
                   warnings |-> acc.warnings,
                   entries |-> Append(acc.entries, CallEntry(trip, r)) ]
            ELSE [acc EXCEPT !.warnings = Append(@, Warning(i + 1, WarningText(r.status)))]

\* The body of the loop for the item trip at the zero-based index i.  A
\* dictionary without one of the keys raises KeyError at lines 244-251, and
\* add_trip may raise SakayDBError or the KeyError of line 165: each is
\* caught (lines 253-257) and printed with the index.
AddTripsStep(acc, i, trip) ==
    IF ~(TripKeys \subseteq DOMAIN trip)
    THEN [acc EXCEPT !.warnings = Append(@, Warning(i, WarningText("KeyError")))]
    ELSE LET r == AddTripResult(acc.db, trip)
         IN IF r.status = "ok"
            THEN [ db |-> [ drivers |-> r.drivers, locations |-> r.locations,
                            trips |-> r.trips ],
                   trip_ids |-> Append(acc.trip_ids, r.trip_id),
                   warnings |-> acc.warnings,
                   entries |-> Append(acc.entries, CallEntry(trip, r)) ]
            ELSE [acc EXCEPT !.warnings = Append(@, Warning(i, WarningText(r.status)))]

\* for i, trip in enumerate(trips), from index i on
RECURSIVE AddTripsLoop(_, _, _)
AddTripsLoop(acc, list, i) ==
    IF i = Len(list) THEN acc
    ELSE AddTripsLoop(AddTripsStep(acc, i, list[i + 1]), list, i + 1)

\* the files, the returned ids and the printed warnings after add_trips(list)
\* on the files db
AddTripsResult(db, list) ==
    AddTripsLoop([db |-> db, trip_ids |-> <<>>, warnings |-> <<>>,
                  entries |-> <<>>], list, 0)

add_trips(list) ==
    /\ Len(calls) + Len(list) <= MaxAdds
    /\ \E r \in {AddTripsResult(Store, list)} :
          /\ drivers' = r.db.drivers
          /\ locations' = r.db.locations
          /\ trips' = r.db.trips
          /\ ret' = [ NoRet EXCEPT
                        !.op = "add_trips", !.status = "ok", !.args = list,
                        !.trip_ids = r.trip_ids, !.warnings = r.warnings ]
          /\ calls' = calls \o r.entries
    /\ UNCHANGED <<ndel, inflight>>

\* ------------------------------------------------------------------------
\* delete_trip (lines 280-294)
\* ------------------------------------------------------------------------
\* a filter that also drops the rows with a smaller id
DeleteRowsUpTo(rows, trip_id) ==
    LET Keep(r) == r.trip_id > trip_id
    IN SelectSeq(rows, Keep)

\* df_trips[df_trips['trip_id'] != trip_id] (line 290)
DeleteRows(rows, trip_id) ==
    LET Keep(r) == r.trip_id # trip_id
    IN SelectSeq(rows, Keep)

\* a test that finds every id
HasTripAlways(rows, trip_id) == TRUE

\* df_trip.shape[0] != 0 (lines 285-287)
HasTrip(rows, trip_id) == \E i \in 1..Len(rows) : rows[i].trip_id = trip_id

\* A call that raises is always possible; the calls that delete a row are
\* counted and at most MaxDeletes of them are explored.
delete_trip(trip_id) ==
    /\ (trips.exists /\ HasTrip(trips.rows, trip_id)) => ndel < MaxDeletes
    /\ IF trips.exists /\ HasTrip(trips.rows, trip_id)
       THEN /\ trips' = Table(DeleteRows(trips.rows, trip_id))
            /\ ret' = [NoRet EXCEPT !.op = "delete_trip", !.status = "ok",
                                    !.trip_id = trip_id]
            /\ ndel' = ndel + 1
       ELSE /\ ret' = [NoRet EXCEPT !.op = "delete_trip",
                                    !.status = "SakayDBError",
                                    !.trip_id = trip_id]
            /\ UNCHANGED <<trips, ndel>>
    /\ UNCHANGED <<drivers, locations, calls, inflight>>

\* ------------------------------------------------------------------------
\* search_trips (lines 322-405)
\* ------------------------------------------------------------------------
valid_keys ==
    { "driver_id", "pickup_datetime", "dropoff_datetime", "passenger_count",
      "trip_distance", "fare_amount" }
date_keys == { "pickup_datetime", "dropoff_datetime" }
float_keys == { "driver_id", "passenger_count", "trip_distance", "fare_amount" }

\* a check that looks at the first keyword only
BadKeysFirst(kw) == Len(kw) = 0 \/ kw[1].key \notin valid_keys

\* len(keys) == 0 or chk (lines 329-331)
BadKeys(kw) == Len(kw) = 0 \/ \E i \in 1..Len(kw) : kw[i].key \notin valid_keys

\* float(v) or pd.to_datetime(v, format=...) succeeds (lines 363-376,
\* 390-394); a column of another name raises KeyError when it is read
Coercible(key, v) ==
    IF key \in float_keys THEN Parses(FloatTable, v)
    ELSE IF key \in date_keys THEN v = None \/ Parses(DateTimeTable, v)
    ELSE FALSE

\* the converted value: thousandths, or minutes
Coerce(key, v) ==
    IF key \in float_keys THEN Parse(FloatTable, v)
    ELSE Parse(DateTimeTable, v)

\* a column read without the cast of lines 347-352: the dates compare as
\* their stored 'HH:MM:SS,DD-MM-YYYY' strings, given here by their rank in
\* string order
ColumnValueStored(r, key) ==
    LET stored == << "07:00:00,02-01-2020", "08:00:00,01-01-2020",
                     "08:00:00,08-01-2020", "09:30:00,01-01-2020" >>
        Rank(v) == CHOOSE n \in 1..Len(stored) : stored[n] = v
    IN CASE key = "driver_id" -> r.driver_id * 1000
         [] key = "passenger_count" -> r.passenger_count * 1000
         [] key = "trip_distance" -> r.trip_distance
         [] key = "fare_amount" -> r.fare_amount
         [] key = "pickup_datetime" -> Rank(r.pickup_datetime)
         [] key = "dropoff_datetime" -> Rank(r.dropoff_datetime)

\* df_trips[key] of one row, in the units of Coerce: the date columns were
\* cast to datetimes at lines 347-352
ColumnValue(r, key) ==
    CASE key = "driver_id" -> r.driver_id * 1000
      [] key = "passenger_count" -> r.passenger_count * 1000
      [] key = "trip_distance" -> r.trip_distance
      [] key = "fare_amount" -> r.fare_amount
      [] key = "pickup_datetime" -> Parse(DateTimeTable, r.pickup_datetime)
      [] key = "dropoff_datetime" -> Parse(DateTimeTable, r.dropoff_datetime)

\* a filter that leaves the bounds of a range out
ApplyCriterionExclusive(rows, c) ==
    IF c.type = "tuple"
    THEN IF Len(c.value) # 2
            \/ \E i \in 1..Len(c.value) :
                  c.value[i] # None /\ ~Coercible(c.key, c.value[i])
         THEN [status |-> "SakayDBError", rows |-> <<>>]
         ELSE LET Hit(r) ==
                      /\ c.value[1] # None =>
                            ColumnValue(r, c.key) > Coerce(c.key, c.value[1])
                      /\ c.value[2] # None =>
                            ColumnValue(r, c.key) < Coerce(c.key, c.value[2])
              IN [status |-> "ok", rows |-> SelectSeq(rows, Hit)]
    ELSE IF ~Coercible(c.key, c.value[1])
         THEN [status |-> "SakayDBError", rows |-> <<>>]
         ELSE LET Hit(r) ==
                      /\ c.value[1] # None
                      /\ ColumnValue(r, c.key) = Coerce(c.key, c.value[1])
              IN [status |-> "ok", rows |-> SelectSeq(rows, Hit)]

\* One turn of the loop of lines 355-397 on the frame rows: the frame
\* filtered by the criterion c, or the raise.  Any exception inside the try
\* block is raised again as SakayDBError (lines 396-397).  float(None) is a
\* TypeError; pd.to_datetime(None) is a null, which equals no date.
ApplyCriterion(rows, c) ==
    IF c.type = "tuple"
    THEN IF Len(c.value) # 2
            \/ \E i \in 1..Len(c.value) :
                  c.value[i] # None /\ ~Coercible(c.key, c.value[i])
         THEN [status |-> "SakayDBError", rows |-> <<>>]
         ELSE LET Hit(r) ==
                      /\ c.value[1] # None =>
                            ColumnValue(r, c.key) >= Coerce(c.key, c.value[1])
                      /\ c.value[2] # None =>
                            ColumnValue(r, c.key) <= Coerce(c.key, c.value[2])
              IN [status |-> "ok", rows |-> SelectSeq(rows, Hit)]
    ELSE IF ~Coercible(c.key, c.value[1])
         THEN [status |-> "SakayDBError", rows |-> <<>>]
         ELSE LET Hit(r) ==
                      /\ c.value[1] # None
                      /\ ColumnValue(r, c.key) = Coerce(c.key, c.value[1])
              IN [status |-> "ok", rows |-> SelectSeq(rows, Hit)]

\* for key, value in kwargs.items(), from the i-th keyword on
RECURSIVE FilterFrom(_, _, _)
FilterFrom(rows, kw, i) ==
    IF i > Len(kw) THEN [status |-> "ok", rows |-> rows]
    ELSE LET f == ApplyCriterion(rows, kw[i])
         IN IF f.status # "ok" THEN f ELSE FilterFrom(f.rows, kw, i + 1)

\* row a sorts before row b, or ties with it, on the keys from the i-th on
RECURSIVE KeysLeq(_, _, _, _)
KeysLeq(a, b, kw, i) ==
    IF i > Len(kw) THEN TRUE
    ELSE IF ColumnValue(a, kw[i].key) < ColumnValue(b, kw[i].key) THEN TRUE
    ELSE IF ColumnValue(a, kw[i].key) > ColumnValue(b, kw[i].key) THEN FALSE
    ELSE KeysLeq(a, b, kw, i + 1)

RECURSIVE InsertByKeys(_, _, _)
InsertByKeys(sorted, r, kw) ==
    IF sorted = <<>> THEN <<r>>
    ELSE IF KeysLeq(sorted[Len(sorted)], r, kw, 1)
         THEN Append(sorted, r)
         ELSE Append(InsertByKeys(SubSeq(sorted, 1, Len(sorted) - 1), r, kw),
                     sorted[Len(sorted)])

\* df_trips.sort_values(list(keys)) (line 400): ascending on the keywords'
\* columns in the order they were passed, rows that tie kept in ledger order
RECURSIVE SortByKeys(_, _)
SortByKeys(rows, kw) ==
    IF rows = <<>> THEN <<>>
    ELSE InsertByKeys(SortByKeys(SubSeq(rows, 1, Len(rows) - 1), kw),
                      rows[Len(rows)], kw)

\* what search_trips(**kw) returns or raises on the files db: a raise, the
\* empty list of line 339, or the filtered and sorted frame
SearchResult(db, kw) ==
    IF BadKeys(kw)
    THEN [status |-> "SakayDBError", type |-> "none", rows |-> <<>>]
    ELSE IF ~db.trips.exists
    THEN [status |-> "ok", type |-> "list", rows |-> <<>>]
    ELSE LET f == FilterFrom(db.trips.rows, kw, 1)
         IN IF f.status # "ok"
            THEN [status |-> "SakayDBError", type |-> "none", rows |-> <<>>]
            ELSE [status |-> "ok", type |-> "DataFrame",
                  rows |-> SortByKeys(f.rows, kw)]

search_trips(kw) ==
    /\ \E r \in {SearchResult(Store, kw)} :
          ret' = [ NoRet EXCEPT
                     !.op = "search_trips", !.status = r.status, !.args = kw,
                     !.type = r.type, !.result = r.rows ]
    /\ UNCHANGED <<drivers, locations, trips, calls, ndel, inflight>>

\* ------------------------------------------------------------------------
\* export_data (lines 441-494)
\* ------------------------------------------------------------------------
\* the missing value a left merge fills in
Null == <<"NaN">>

RECURSIVE Flatten(_)
Flatten(ss) == IF ss = <<>> THEN <<>> ELSE Head(ss) \o Flatten(Tail(ss))

\* DataFrame.merge(how='left'): every left row once per right row with the
\* same key, in right order, or once with nulls when there is none
MergeDrivers(rows, df_drivers) ==
    LET Joined(t) ==
            LET Hit(d) == d.driver_id = t.driver_id
                m == SelectSeq(df_drivers, Hit)
            IN IF m = <<>>
               THEN << [trip |-> t, given_name |-> Null, last_name |-> Null] >>
               ELSE [ i \in 1..Len(m) |->
                        [ trip |-> t, given_name |-> m[i].given_name,
                          last_name |-> m[i].last_name ] ]
    IN Flatten([i \in 1..Len(rows) |-> Joined(rows[i])])

\* a merge that keeps only the trips whose pickup location is found
\* (how='inner')
MergePickupInner(rows, df_locs) ==
    LET Joined(j) ==
            LET Hit(l) == l.location_id = j.trip.pickup_loc_id
                m == SelectSeq(df_locs, Hit)
            IN [ i \in 1..Len(m) |->
                   [ trip |-> j.trip, given_name |-> j.given_name,
                     last_name |-> j.last_name,
                     loc_name_x |-> m[i].loc_name ] ]
    IN Flatten([i \in 1..Len(rows) |-> Joined(rows[i])])

MergePickup(rows, df_locs) ==
    LET Joined(j) ==
            LET Hit(l) == l.location_id = j.trip.pickup_loc_id
                m == SelectSeq(df_locs, Hit)
            IN IF m = <<>>
               THEN << [ trip |-> j.trip, given_name |-> j.given_name,
                         last_name |-> j.last_name, loc_name_x |-> Null ] >>
               ELSE [ i \in 1..Len(m) |->
                        [ trip |-> j.trip, given_name |-> j.given_name,
                          last_name |-> j.last_name,
                          loc_name_x |-> m[i].loc_name ] ]
    IN Flatten([i \in 1..Len(rows) |-> Joined(rows[i])])

MergeDropoff(rows, df_locs) ==
    LET Joined(j) ==
            LET Hit(l) == l.location_id = j.trip.dropoff_loc_id
                m == SelectSeq(df_locs, Hit)
            IN IF m = <<>>
               THEN << [ trip |-> j.trip, given_name |-> j.given_name,
                         last_name |-> j.last_name,
                         loc_name_x |-> j.loc_name_x, loc_name_y |-> Null ] >>
               ELSE [ i \in 1..Len(m) |->
                        [ trip |-> j.trip, given_name |-> j.given_name,
                          last_name |-> j.last_name,
                          loc_name_x |-> j.loc_name_x,
                          loc_name_y |-> m[i].loc_name ] ]
    IN Flatten([i \in 1..Len(rows) |-> Joined(rows[i])])

\* sort_values(by='trip_id'): ascending, equal keys kept in their order
RECURSIVE InsertByTripId(_, _)
InsertByTripId(sorted, j) ==
    IF sorted = <<>> THEN <<j>>
    ELSE IF sorted[Len(sorted)].trip.trip_id <= j.trip.trip_id
         THEN Append(sorted, j)
         ELSE Append(InsertByTripId(SubSeq(sorted, 1, Len(sorted) - 1), j),
                     sorted[Len(sorted)])

RECURSIVE SortByTripId(_)
SortByTripId(rows) ==
    IF rows = <<>> THEN <<>>
    ELSE InsertByTripId(SortByTripId(SubSeq(rows, 1, Len(rows) - 1)),
                        rows[Len(rows)])

\* the nine exported columns (lines 463-475)
ExportRow(j) ==
    [ driver_lastname |-> j.last_name,
      driver_givenname |-> j.given_name,
      pickup_datetime |-> j.trip.pickup_datetime,
      dropoff_datetime |-> j.trip.dropoff_datetime,
      passenger_count |-> j.trip.passenger_count,
      pickup_loc_name |-> j.loc_name_x,
      dropoff_loc_name |-> j.loc_name_y,
      trip_distance |-> j.trip.trip_distance,
      fare_amount |-> j.trip.fare_amount ]

export_data ==
    IF trips.exists /\ drivers.exists /\ locations.exists
    THEN LET merged == MergeDropoff(
                           MergePickup(MergeDrivers(trips.rows, drivers.rows),
                                       locations.rows),
                           locations.rows)
             sorted == SortByTripId(merged)
         IN [i \in 1..Len(sorted) |-> ExportRow(sorted[i])]
    ELSE <<>>

\* the columns of the exported frame (lines 475-479, 487-494)
ExportColumns ==
    << "driver_lastname", "driver_givenname", "pickup_datetime",
       "dropoff_datetime", "passenger_count", "pickup_loc_name",
       "dropoff_loc_name", "trip_distance", "fare_amount" >>

\* a call that opens trips.csv for appending and so creates it when absent
ExportCallCreating ==
    /\ ret' = [ NoRet EXCEPT
                  !.op = "export_data", !.status = "ok", !.type = "DataFrame",
                  !.columns = ExportColumns, !.result = export_data ]
    /\ trips' = IF trips.exists THEN trips ELSE Table(<<>>)
    /\ UNCHANGED <<drivers, locations, calls, ndel, inflight>>

\* a call of export_data: the frame it returns
ExportCall ==
    /\ ret' = [ NoRet EXCEPT
                  !.op = "export_data", !.status = "ok", !.type = "DataFrame",
                  !.columns = ExportColumns, !.result = export_data ]
    /\ UNCHANGED <<drivers, locations, trips, calls, ndel, inflight>>

\* ------------------------------------------------------------------------
\* generate_statistics (lines 527-626).  A mean is kept as the pair of the
\* sum and the count it divides.
\* ------------------------------------------------------------------------
\* a dictionary without keys
EmptyMap == [k \in {} |-> <<>>]

DayNames ==
    << "Monday", "Tuesday", "Wednesday", "Thursday", "Friday", "Saturday",
       "Sunday" >>

\* the calendar day of a timestamp, in days since 01-01-2020
DateOf(s) == Parse(DateTimeTable, s) \div 1440

\* Series.dt.day_name(): 01-01-2020 was a Wednesday
DayName(s) == DayNames[((DateOf(s) + 2) % 7) + 1]

\* the trips per pickup day of rows, averaged over the days that have a trip
DailyMean(rows) ==
    << Len(rows),
       Cardinality({ DateOf(rows[i].pickup_datetime) : i \in 1..Len(rows) }) >>

\* a mean over the days of all the rows instead of the days of the group
MeanByDayAllDays(rows) ==
    [ d \in { DayName(rows[i].pickup_datetime) : i \in 1..Len(rows) } |->
        LET OnDay(r) == DayName(r.pickup_datetime) = d
        IN << Len(SelectSeq(rows, OnDay)), DailyMean(rows)[2] >> ]

\* groupby(day_name, day).count() then groupby(day_name).mean(), as a
\* dictionary keyed by the day names that occur
MeanByDay(rows) ==
    [ d \in { DayName(rows[i].pickup_datetime) : i \in 1..Len(rows) } |->
        LET OnDay(r) == DayName(r.pickup_datetime) = d
        IN DailyMean(SelectSeq(rows, OnDay)) ]

\* What groupby(...).apply(...).to_dict() gives for a frame without rows
\* (lines 577-578, 612-613): no group is applied, and pandas returns an
\* empty Series (a dictionary without keys) or an empty frame with the
\* given columns (a dictionary of each column name to {}), depending on
\* its version; framed tells which.
ApplyOnEmpty(columns, framed) ==
    IF framed THEN [c \in columns |-> EmptyMap] ELSE EmptyMap

stat_trip(db) ==
    IF db.trips.exists THEN MeanByDay(db.trips.rows) ELSE EmptyMap

stat_passenger(db, framed) ==
    IF db.trips.exists
    THEN IF db.trips.rows = <<>>
         THEN ApplyOnEmpty({"passenger_count", "day_name", "trip_id"}, framed)
         ELSE [ n \in { db.trips.rows[i].passenger_count :
                           i \in 1..Len(db.trips.rows) } |->
                  LET Of(r) == r.passenger_count = n
                  IN MeanByDay(SelectSeq(db.trips.rows, Of)) ]
    ELSE EmptyMap

\* last_name + ', ' + given_name of a merged row (line 601)
FullName(j) == j.last_name \o <<",", " ">> \o j.given_name

\* groupby leaves out the rows whose driver the merge did not find
stat_driver(db, framed) ==
    IF db.trips.exists /\ db.drivers.exists
    THEN LET Known(j) == j.last_name # Null
             named == SelectSeq(MergeDrivers(db.trips.rows, db.drivers.rows),
                                Known)
         IN IF named = <<>>
            THEN ApplyOnEmpty({"full_name", "day_name", "trip_id"}, framed)
            ELSE [ n \in { FullName(named[i]) : i \in 1..Len(named) } |->
                     LET Of(j) == FullName(j) = n
                         of == SelectSeq(named, Of)
                     IN MeanByDay([i \in 1..Len(of) |-> of[i].trip]) ]
    ELSE EmptyMap

\* a dispatch that returns {} for 'all' when there is no ledger file
StatisticsResultShort(db, stat, framed) ==
    IF stat = "all" /\ ~db.trips.exists
    THEN [status |-> "ok", value |-> EmptyMap]
    ELSE IF stat = "all"
    THEN [ status |-> "ok",
           value |-> [ trip |-> stat_trip(db),
                       passenger |-> stat_passenger(db, framed),
                       driver |-> stat_driver(db, framed) ] ]
    ELSE IF stat = "trip" THEN [status |-> "ok", value |-> stat_trip(db)]
    ELSE IF stat = "passenger"
    THEN [status |-> "ok", value |-> stat_passenger(db, framed)]
    ELSE IF stat = "driver"
    THEN [status |-> "ok", value |-> stat_driver(db, framed)]
    ELSE [status |-> "SakayDBError", value |-> EmptyMap]

\* lines 616-626
StatisticsResult(db, stat, framed) ==
    IF stat = "trip" THEN [status |-> "ok", value |-> stat_trip(db)]
    ELSE IF stat = "passenger"
    THEN [status |-> "ok", value |-> stat_passenger(db, framed)]
    ELSE IF stat = "driver"
    THEN [status |-> "ok", value |-> stat_driver(db, framed)]
    ELSE IF stat = "all"
    THEN [ status |-> "ok",
           value |-> [ trip |-> stat_trip(db),
                       passenger |-> stat_passenger(db, framed),
                       driver |-> stat_driver(db, framed) ] ]
    ELSE [status |-> "SakayDBError", value |-> EmptyMap]

generate_statistics(stat) ==
    /\ \E framed \in BOOLEAN :
       \E r \in {StatisticsResult(Store, stat, framed)} :
          ret' = [ NoRet EXCEPT
                        !.op = "generate_statistics", !.status = r.status,
                        !.args = <<stat>>, !.type = "dict",
                        !.result = r.value ]
    /\ UNCHANGED <<drivers, locations, trips, calls, ndel, inflight>>

\* ------------------------------------------------------------------------
\* generate_odmatrix (lines 765-843)
\* ------------------------------------------------------------------------
\* a frame without rows and columns
EmptyMatrix == [index |-> {}, columns |-> {}, cell |-> EmptyMap]

\* lines 777-788: the pickup time and the two names of every trip, a name
\* being null when the ledger's id is in no locations row
NamedTrips(db) ==
    LET j == MergeDropoff(
                 MergePickup([i \in 1..Len(db.trips.rows) |->
                                 [ trip |-> db.trips.rows[i],
                                   given_name |-> Null, last_name |-> Null ]],
                             db.locations.rows),
                 db.locations.rows)
    IN [ i \in 1..Len(j) |->
           [ pickup_datetime |-> j[i].trip.pickup_datetime,
             pickup_loc_name |-> j[i].loc_name_x,
             dropoff_loc_name |-> j[i].loc_name_y ] ]

\* lines 794-819: the rows inside the range, or the raise; the tuple's
\* values are converted only where the branch uses them
FilterDates(rows, date_range) ==
    IF date_range.type = "None" THEN [status |-> "ok", rows |-> rows]
    ELSE IF date_range.type # "tuple" \/ Len(date_range.value) # 2
    THEN [status |-> "SakayDBError", rows |-> <<>>]
    ELSE IF \E i \in 1..2 : /\ date_range.value[i] # None
                             /\ ~Parses(DateTimeTable, date_range.value[i])
    THEN [status |-> "SakayDBError", rows |-> <<>>]
    ELSE LET In(r) ==
                 /\ date_range.value[1] # None =>
                       Parse(DateTimeTable, r.pickup_datetime)
                          >= Parse(DateTimeTable, date_range.value[1])
                 /\ date_range.value[2] # None =>
                       Parse(DateTimeTable, r.pickup_datetime)
                          <= Parse(DateTimeTable, date_range.value[2])
         IN [status |-> "ok", rows |-> SelectSeq(rows, In)]

\* lines 826-841: for the dropoff names (index) and pickup names (columns)
\* that occur, the number of trips of the pair over the number of days on
\* which the pair has a trip, and 0 for a pair without trips.  crosstab and
\* pivot_table leave out the rows with a null name.
ODMatrix(rows) ==
    LET Named(r) == r.pickup_loc_name # Null /\ r.dropoff_loc_name # Null
        named == SelectSeq(rows, Named)
        index == { named[i].dropoff_loc_name : i \in 1..Len(named) }
        columns == { named[i].pickup_loc_name : i \in 1..Len(named) }
    IN [ index |-> index,
         columns |-> columns,
         cell |-> [ c \in index \X columns |->
                      LET Of(r) == /\ r.dropoff_loc_name = c[1]
                                   /\ r.pickup_loc_name = c[2]
                          of == SelectSeq(named, Of)
                      IN IF of = <<>> THEN <<0, 1>> ELSE DailyMean(of) ] ]

\* lines 771-775, then the filter and the matrix
ODMatrixResult(db, date_range) ==
    IF db.trips.exists /\ db.locations.exists
    THEN LET f == FilterDates(NamedTrips(db), date_range)
         IN IF f.status # "ok"
            THEN [status |-> "SakayDBError", value |-> EmptyMatrix]
            ELSE [status |-> "ok", value |-> ODMatrix(f.rows)]
    ELSE [status |-> "ok", value |-> EmptyMatrix]

generate_odmatrix(date_range) ==
    /\ \E r \in {ODMatrixResult(Store, date_range)} :
          ret' = [ NoRet EXCEPT
                     !.op = "generate_odmatrix", !.status = r.status,
                     !.args = <<date_range>>, !.type = "DataFrame",
                     !.result = r.value ]
    /\ UNCHANGED <<drivers, locations, trips, calls, ndel, inflight>>

\* ------------------------------------------------------------------------
\* Specification
\* ------------------------------------------------------------------------
\* add_trip over all the requests; delete_trip until MaxDeletes calls have
\* deleted a row
Next ==
    \/ \E a \in TripArgs : add_trip(a)
    \/ \E trip_id \in TripIds : ndel < MaxDeletes /\ delete_trip(trip_id)

Spec == Init /\ [][Next]_vars

\* add_trip over the few requests; delete_trip, the calls that raise included
\* in every state
NextFew ==
    \/ \E a \in FewArgs : add_trip(a)
    \/ \E trip_id \in TripIds : delete_trip(trip_id)

SpecFew == Init /\ [][NextFew]_vars

\* add_trips over the lists; delete_trip
NextBatch ==
    \/ \E list \in Batches : add_trips(list)
    \/ \E trip_id \in TripIds : delete_trip(trip_id)

SpecBatch == Init /\ [][NextBatch]_vars

\* add_trip over the few requests; delete_trip; search_trips
NextSearch ==
    \/ \E a \in FewArgs : add_trip(a)
    \/ \E trip_id \in TripIds : ndel < MaxDeletes /\ delete_trip(trip_id)
    \/ \E kw \in Searches : search_trips(kw)

SpecSearch == Init /\ [][NextSearch]_vars

\* add_trip over the few requests; delete_trip; the four reads
NextRead ==
    \/ \E a \in FewArgs : add_trip(a)
    \/ \E trip_id \in TripIds : ndel < MaxDeletes /\ delete_trip(trip_id)
    \/ \E kw \in Searches : search_trips(kw)
    \/ ExportCall
    \/ \E stat \in Stats : generate_statistics(stat)
    \/ \E date_range \in DateRanges : generate_odmatrix(date_range)

SpecRead == Init /\ [][NextRead]_vars

\* the three writes: add_trip over the few requests; add_trips over the
\* lists; delete_trip
NextWrite ==
    \/ \E a \in FewArgs : add_trip(a)
    \/ \E list \in Batches : add_trips(list)
    \/ \E trip_id \in TripIds : ndel < MaxDeletes /\ delete_trip(trip_id)

SpecWrite == Init /\ [][NextWrite]_vars

\* add_trip over the requests on several days; delete_trip; the four reads
NextDated ==
    \/ \E a \in DatedArgs : add_trip(a)
    \/ \E trip_id \in TripIds : ndel < MaxDeletes /\ delete_trip(trip_id)
    \/ \E kw \in DatedSearches : search_trips(kw)
    \/ ExportCall
    \/ \E stat \in Stats : generate_statistics(stat)
    \/ \E date_range \in DatedRanges : generate_odmatrix(date_range)

SpecDated == Init /\ [][NextDated]_vars

\* add_trip calls one after the other while no concurrent call has
\* started; then two concurrent add_trip calls, one per caller, their reads
\* and writes interleaved in every way
NextRace ==
    \/ \E a \in RaceArgs :
          /\ \A p \in Procs : inflight[p].pc = "idle"
          /\ Len(calls) + 2 < MaxAdds
          /\ add_trip(a)
    \/ \E p \in Procs : \E a \in RaceArgs : ReadTables(p, a)
    \/ \E p \in Procs : WriteTables(p)

SpecRace == Init /\ [][NextRace]_vars

\* ------------------------------------------------------------------------
\* Properties
\* ------------------------------------------------------------------------
DriverIds == { drivers.rows[i].driver_id : i \in 1..Len(drivers.rows) }
LocationIds == { locations.rows[i].location_id : i \in 1..Len(locations.rows) }
TripIdsOf(rows) == { rows[i].trip_id : i \in 1..Len(rows) }

\* C1: referential integrity.  Every driver_id of the persisted ledger is
\* the id of a drivers row, and every pickup_loc_id and dropoff_loc_id is the
\* id of a locations row.
C1_ReferentialIntegrity ==
    \A i \in 1..Len(trips.rows) :
        /\ trips.rows[i].driver_id \in DriverIds
        /\ trips.rows[i].pickup_loc_id \in LocationIds
        /\ trips.rows[i].dropoff_loc_id \in LocationIds

\* C2: export round trip.  With no delete so far, the i-th exported row
\* carries the title-cased driver, pickup and dropoff names that were passed
\* to the i-th successful add_trip call.
C2_ExportRoundTrip ==
    ndel = 0 =>
        /\ Len(export_data) = Len(calls)
        /\ \A i \in 1..Len(calls) :
             /\ export_data[i].driver_lastname = title(calls[i].driver_name[1])
             /\ export_data[i].driver_givenname = title(calls[i].driver_name[2])
             /\ export_data[i].pickup_loc_name = title(calls[i].pickup_loc_name)
             /\ export_data[i].dropoff_loc_name = title(calls[i].dropoff_loc_name)

\* the (name, id) pairs the successful calls stored, pickups and dropoffs
LocationRefs ==
    { <<lower(calls[i].pickup_loc_name), calls[i].row.pickup_loc_id>> :
          i \in 1..Len(calls) }
    \cup { <<lower(calls[i].dropoff_loc_name), calls[i].row.dropoff_loc_id>> :
          i \in 1..Len(calls) }

\* C3: location resolve-or-create is stable.  Any two references to names
\* equal up to case, as pickup or as dropoff, in the same or in different
\* successful calls, are stored with the same location id.
C3_LocationIdStable ==
    \A x \in LocationRefs : \A y \in LocationRefs : x[1] = y[1] => x[2] = y[2]

SameDriver(m, n) == lower(m[1]) = lower(n[1]) /\ lower(m[2]) = lower(n[2])

DriverRowsOf(n) ==
    { i \in 1..Len(drivers.rows) :
        SameDriver(<<drivers.rows[i].last_name, drivers.rows[i].given_name>>, n) }

\* C4: driver resolve-or-create is idempotent up to case.  Successful calls
\* whose driver names are equal up to case wrote the same driver_id, the
\* drivers table holds exactly one row for that driver, and a successful
\* call adds a drivers row exactly when no earlier successful call named the
\* same driver.
C4_DriverIdempotent ==
    /\ [](\A i \in 1..Len(calls) :
            /\ Cardinality(DriverRowsOf(calls[i].driver_name)) = 1
            /\ \A j \in 1..Len(calls) :
                 SameDriver(calls[i].driver_name, calls[j].driver_name)
                    => calls[i].row.driver_id = calls[j].row.driver_id)
    /\ [][ Len(calls') = Len(calls) + 1 =>
             Len(drivers'.rows) - Len(drivers.rows) =
                IF \E i \in 1..Len(calls) :
                      SameDriver(calls[i].driver_name,
                                 calls'[Len(calls')].driver_name)
                THEN 0 ELSE 1 ]_vars

\* two successful calls named one driver in different cases
C4_Witness ==
    \E i \in 1..Len(calls) : \E j \in 1..Len(calls) :
        /\ i < j
        /\ calls[i].driver_name # calls[j].driver_name
        /\ SameDriver(calls[i].driver_name, calls[j].driver_name)

\* C5: natural-key uniqueness.  No two drivers rows have (last_name,
\* given_name) equal up to case and no two locations rows have loc_name equal
\* up to case.
C5_NaturalKeyUnique ==
    /\ \A i \in 1..Len(drivers.rows) : \A j \in 1..Len(drivers.rows) :
          i # j =>
            ~SameDriver(<<drivers.rows[i].last_name, drivers.rows[i].given_name>>,
                        <<drivers.rows[j].last_name, drivers.rows[j].given_name>>)
    /\ \A i \in 1..Len(locations.rows) : \A j \in 1..Len(locations.rows) :
          i # j =>
            lower(locations.rows[i].loc_name) # lower(locations.rows[j].loc_name)

\* both tables hold two rows after three successful calls, so a driver and
\* a location were each named again
C5_Witness ==
    /\ Len(calls) = 3
    /\ Len(drivers.rows) = 2
    /\ Len(locations.rows) = 2
    /\ \E i \in 1..2 : SameDriver(calls[i].driver_name, calls[3].driver_name)
    /\ \E i \in 1..2 :
          lower(calls[i].dropoff_loc_name) = lower(calls[3].dropoff_loc_name)

GapAt(rows, n, k) ==
    /\ k \in 1..(n - 1)
    /\ TripIdsOf(rows) = (1..n) \ {k}
    /\ Len(rows) = n - 1

\* C7: gaps are not refilled.  When the ledger holds the ids 1..n but k,
\* k < n, a successful add_trip returns n + 1 and leaves no row with id k.
C7_GapNotRefilled ==
    [][ Len(calls') = Len(calls) + 1 =>
          \A n \in TripIdsOf(trips.rows) : \A k \in 1..n :
              GapAt(trips.rows, n, k) =>
                  /\ ret'.trip_id = n + 1
                  /\ k \notin TripIdsOf(trips'.rows) ]_vars

\* an add_trip has just returned n + 1 into a ledger with a gap at k < n
C7_Witness ==
    /\ ret.op = "add_trip"
    /\ ret.status = "ok"
    /\ \E k \in 1..(ret.trip_id - 2) :
          /\ TripIdsOf(trips.rows) = (1..ret.trip_id) \ {k}
          /\ Len(trips.rows) = ret.trip_id - 1

\* C8: add_trip with well-formed input that duplicates no ledger row
\* succeeds: it returns an id, the ledger gains exactly one row, that row
\* carries the id, and the id is 1 when the ledger held no row.
C8_AddSucceeds ==
    [][ ( /\ ret'.op = "add_trip"
          /\ ret'.status # "invalid"
          /\ MatchTrip(trips.rows, ret'.trip[1]) = <<>> ) =>
          /\ ret'.status = "ok"
          /\ trips'.exists
          /\ Len(trips'.rows) = Len(trips.rows) + 1
          /\ SubSeq(trips'.rows, 1, Len(trips.rows)) = trips.rows
          /\ trips'.rows[Len(trips'.rows)].trip_id = ret'.trip_id
          /\ (Len(trips.rows) = 0 => ret'.trip_id = 1) ]_vars

\* row r equals trip t on the six exact fields and is within tolerance on
\* the two real fields
Duplicates(r, t) ==
    /\ r.driver_id = t.driver_id
    /\ r.pickup_datetime = t.pickup_datetime
    /\ r.dropoff_datetime = t.dropoff_datetime
    /\ r.passenger_count = t.passenger_count
    /\ r.pickup_loc_id = t.pickup_loc_id
    /\ r.dropoff_loc_id = t.dropoff_loc_id
    /\ IsClose(r.trip_distance, t.trip_distance)
    /\ IsClose(r.fare_amount, t.fare_amount)

\* C9: duplicate rule.  With the ids resolved, add_trip raises the duplicate
\* error exactly when some ledger row duplicates the new trip, and a trip
\* that no row duplicates is accepted and appended to the rows already there.
C9_DuplicateRule ==
    [][ (ret'.op = "add_trip" /\ ret'.status # "invalid") =>
          LET t == ret'.trip[1]
              dup == \E i \in 1..Len(trips.rows) : Duplicates(trips.rows[i], t)
          IN /\ (ret'.status = "duplicate") <=> dup
             /\ ~dup => /\ ret'.status = "ok"
                        /\ trips'.rows =
                              Append(trips.rows, TripRow(ret'.trip_id, t)) ]_vars

\* C10: a rejected duplicate performs no write.  When add_trip raises the
\* duplicate error the three tables are what they were before the call.
C10_DuplicateNoWrite ==
    [][ (ret'.op = "add_trip" /\ ret'.status = "duplicate") =>
          /\ drivers' = drivers
          /\ locations' = locations
          /\ trips' = trips ]_vars

\* a duplicate was rejected: the fare differs from the stored one, within
\* tolerance
C10_Witness ==
    /\ ret.op = "add_trip"
    /\ ret.status = "duplicate"
    /\ \E i \in 1..Len(trips.rows) :
          /\ Duplicates(trips.rows[i], ret.trip[1])
          /\ trips.rows[i].fare_amount # ret.trip[1].fare_amount

\* C11: malformed input is rejected before any table is touched.  An
\* add_trip call whose driver string, pickup or dropoff timestamp,
\* passenger_count, trip_distance or fare_amount fails validation raises the
\* 'has invalid or incomplete information' error and leaves the drivers,
\* locations and trips tables as they were.
C11_MalformedNoWrite ==
    [][ \A a \in FewArgs :
          ( /\ \/ Len(split(strip(a.driver))) # 2
               \/ ~Parses(DateTimeTable, a.pickup_datetime)
               \/ ~Parses(DateTimeTable, a.dropoff_datetime)
               \/ ~Parses(IntTable, a.passenger_count)
               \/ ~Parses(FloatTable, a.trip_distance)
               \/ ~Parses(FloatTable, a.fare_amount)
            /\ add_trip(a) ) =>
            /\ ret'.status = "invalid"
            /\ drivers' = drivers
            /\ locations' = locations
            /\ trips' = trips ]_vars

\* a malformed request was rejected on a store that holds a driver and a
\* location
C11_Witness ==
    /\ ret.op = "add_trip"
    /\ ret.status = "invalid"
    /\ drivers.exists
    /\ Len(drivers.rows) = 1
    /\ Len(locations.rows) = 1

C13_DeleteMissingRaises ==
    [][ /\ \A id \in TripIds :
             (delete_trip(id) /\ id \notin TripIdsOf(trips.rows)) =>
               /\ ret'.status = "SakayDBError"
               /\ drivers' = drivers
               /\ locations' = locations
               /\ trips' = trips
        /\ ( /\ ret.op = "delete_trip"
             /\ ret.status = "ok"
             /\ delete_trip(ret.trip_id) ) => ret'.status = "SakayDBError" ]_vars

\* a delete has raised for the id of a trip that was added and deleted
\* before, other trips being left in the ledger
C13_Witness ==
    /\ ret.op = "delete_trip"
    /\ ret.status = "SakayDBError"
    /\ ndel = 1
    /\ trips.rows # <<>>
    /\ ret.trip_id \notin TripIdsOf(trips.rows)
    /\ \E i \in 1..Len(calls) : calls[i].trip_id = ret.trip_id

\* the outcome of passing a list item to add_trip on the files db; a
\* dictionary that lacks a key cannot be passed
ItemResult(db, item) ==
    IF TripKeys \subseteq DOMAIN item
    THEN AddTripResult(db, item)
    ELSE Raised(db, "incomplete")

\* the files after add_trip was called on each item of list in order, the
\* calls that raise ignored
RECURSIVE Sequential(_, _)
Sequential(db, list) ==
    IF list = <<>> THEN db
    ELSE LET r == ItemResult(db, Head(list))
         IN Sequential([ drivers |-> r.drivers, locations |-> r.locations,
                         trips |-> r.trips ], Tail(list))

\* the outcome of the sequential add_trip call for the i-th item of list
ResultAt(db, list, i) ==
    ItemResult(Sequential(db, SubSeq(list, 1, i - 1)), list[i])

\* the i-th item of list is well formed and, at its turn, duplicates no row
\* of the ledger
Acceptable(db, list, i) ==
    /\ TripKeys \subseteq DOMAIN list[i]
    /\ ValidArgs(list[i])
    /\ LET before == Sequential(db, SubSeq(list, 1, i - 1))
           t == AddValidTrip(before, list[i]).trip[1]
       IN \A k \in 1..Len(before.trips.rows) :
              ~Duplicates(before.trips.rows[k], t)

\* C14: add_trips attempts every item in input order and returns exactly the
\* ids of the created trips: the returned list is the sequence of the ids the
\* successful add_trip calls return, in input order, and its length is the
\* number of items that are neither malformed nor duplicates.
C14_ReturnsCreatedIds ==
    [][ ret'.op = "add_trips" =>
          LET list == ret'.args
              ok == { i \in 1..Len(list) : ResultAt(Store, list, i).status = "ok" }
          IN /\ Len(ret'.trip_ids) = Cardinality(ok)
             /\ \A i \in ok :
                   ret'.trip_ids[Cardinality({ j \in ok : j <= i })] =
                       ResultAt(Store, list, i).trip_id
             /\ Len(ret'.trip_ids) =
                   Cardinality({ i \in 1..Len(list) : Acceptable(Store, list, i) })
      ]_vars

\* C15: add_trips prints exactly one warning for each item that is not
\* created and none for an item that is, each warning carrying the
\* zero-based index of its item, and add_trips returns: no error of an
\* item's add_trip propagates.
C15_OneWarningPerFailure ==
    [][ ret'.op = "add_trips" =>
          LET list == ret'.args
              failed == { i \in 1..Len(list) :
                            ResultAt(Store, list, i).status # "ok" }
          IN /\ ret'.status = "ok"
             /\ Len(ret'.warnings) = Cardinality(failed)
             /\ { ret'.warnings[k].index : k \in 1..Len(ret'.warnings) } =
                   { i - 1 : i \in failed }
      ]_vars

\* a list of two items was given, the first was skipped with a warning
\* carrying index 0 and the second was created
C15_Witness ==
    /\ ret.op = "add_trips"
    /\ Len(ret.args) = 2
    /\ Len(ret.warnings) = 1
    /\ ret.warnings[1].index = 0
    /\ Len(ret.trip_ids) = 1

\* C16: add_trips refines sequential add_trip.  The three tables after
\* add_trips(list) are the tables after add_trip is called on each item in
\* input order, the calls that raise ignored; so an item that repeats an
\* earlier item of the list is skipped, as a duplicate when the earlier one
\* was created.
C16_RefinesSequential ==
    [][ ret'.op = "add_trips" =>
          LET list == ret'.args
              seq == Sequential(Store, list)
          IN /\ drivers' = seq.drivers
             /\ locations' = seq.locations
             /\ trips' = seq.trips
             /\ \A i \in 1..Len(list) : \A j \in 1..Len(list) :
                   (i < j /\ list[i] = list[j]) =>
                      \E k \in 1..Len(ret'.warnings) :
                          /\ ret'.warnings[k].index = j - 1
                          /\ ResultAt(Store, list, i).status = "ok" =>
                                ret'.warnings[k].text = "is already in the database"
      ]_vars

\* C17: search_trips with no criteria, or with any criterion whose field is
\* not one of driver_id, pickup_datetime, dropoff_datetime, passenger_count,
\* trip_distance, fare_amount, raises SakayDBError in every store state,
\* whatever the other criteria are.
C17_UnknownKeyRaises ==
    ( /\ ret.op = "search_trips"
      /\ \/ ret.args = <<>>
         \/ \E i \in 1..Len(ret.args) :
               ret.args[i].key \notin
                   { "driver_id", "pickup_datetime", "dropoff_datetime",
                     "passenger_count", "trip_distance", "fare_amount" } )
    => ret.status = "SakayDBError"

\* a search with a known field first and an unknown field second raised
\* while there is no ledger file
C17_Witness ==
    /\ ret.op = "search_trips"
    /\ ret.status = "SakayDBError"
    /\ Len(ret.args) = 2
    /\ ret.args[1].key = "driver_id"
    /\ ret.args[2].key = "color"
    /\ ~trips.exists

\* a criterion on a known field that is malformed: a tuple that has not
\* exactly two values, or a value, other than a None bound, that is no
\* number for a numeric field or no timestamp for a date field
MalformedCriterion(c) ==
    /\ c.key \in { "driver_id", "pickup_datetime", "dropoff_datetime",
                   "passenger_count", "trip_distance", "fare_amount" }
    /\ \/ c.type = "tuple" /\ Len(c.value) # 2
       \/ \E i \in 1..Len(c.value) :
             /\ ~(c.type = "tuple" /\ c.value[i] = None)
             /\ IF c.key \in {"pickup_datetime", "dropoff_datetime"}
                THEN ~Parses(DateTimeTable, c.value[i])
                ELSE ~Parses(FloatTable, c.value[i])

\* C18: a malformed range or value is always a usage error.  search_trips
\* with a range that has not exactly two values or with a value that cannot
\* be converted to its field's type raises SakayDBError, and
\* generate_odmatrix with a date_range tuple that has not exactly two values
\* raises SakayDBError, in every store state, the state without backing
\* tables included.
C18_MalformedValueRaises ==
    /\ ( /\ ret.op = "search_trips"
         /\ \E i \in 1..Len(ret.args) : MalformedCriterion(ret.args[i]) )
       => ret.status = "SakayDBError"
    /\ ( /\ ret.op = "generate_odmatrix"
         /\ ret.args[1].type = "tuple"
         /\ Len(ret.args[1].value) # 2 )
       => ret.status = "SakayDBError"

\* row r meets the criterion c: equality for a single value; for a range,
\* at least the lower bound and at most the upper bound, a bound of None
\* being open
Satisfies(r, c) ==
    IF c.type = "scalar"
    THEN ColumnValue(r, c.key) = Coerce(c.key, c.value[1])
    ELSE /\ c.value[1] = None \/ ColumnValue(r, c.key) >= Coerce(c.key, c.value[1])
         /\ c.value[2] = None \/ ColumnValue(r, c.key) <= Coerce(c.key, c.value[2])

\* C19: search_trips returns exactly the conjunction of its criteria.  When
\* a search returns from an existing ledger, a ledger row is in the result
\* exactly when it meets every criterion, and the result holds each such row
\* once and nothing else.
C19_SearchConjunction ==
    (ret.op = "search_trips" /\ ret.status = "ok" /\ trips.exists) =>
        /\ \A i \in 1..Len(trips.rows) :
              (\A k \in 1..Len(ret.args) : Satisfies(trips.rows[i], ret.args[k]))
              <=> (\E j \in 1..Len(ret.result) : ret.result[j] = trips.rows[i])
        /\ \A j \in 1..Len(ret.result) :
              /\ \E i \in 1..Len(trips.rows) : trips.rows[i] = ret.result[j]
              /\ \A m \in 1..Len(ret.result) :
                    m # j => ret.result[m] # ret.result[j]

\* a search on two criteria, one of them a range with an open bound,
\* returned some of the ledger's rows and not others
C19_Witness ==
    /\ ret.op = "search_trips"
    /\ ret.status = "ok"
    /\ Len(ret.args) = 2
    /\ ret.args[2].type = "tuple"
    /\ None \in { ret.args[2].value[i] : i \in 1..Len(ret.args[2].value) }
    /\ Len(ret.result) > 0
    /\ Len(ret.result) < Len(trips.rows)

\* none of the three files exists
NoTables == ~trips.exists /\ ~drivers.exists /\ ~locations.exists

\* C20: reads treat absent tables as empty.  While the backing tables do
\* not exist, a well-formed search_trips returns the empty list,
\* export_data returns a frame without rows that has the nine export
\* columns, generate_statistics returns a dictionary without keys for
\* 'trip', 'passenger' and 'driver' and, for 'all', a dictionary of the
\* three keys each mapped to a dictionary without keys, and a well-formed
\* generate_odmatrix returns a matrix without rows and columns.
C20_AbsentTablesReadEmpty ==
    NoTables =>
      /\ ( /\ ret.op = "search_trips"
           /\ ret.args # <<>>
           /\ \A i \in 1..Len(ret.args) :
                 /\ ret.args[i].key \in valid_keys
                 /\ ~MalformedCriterion(ret.args[i]) )
         => /\ ret.status = "ok"
            /\ ret.type = "list"
            /\ Len(ret.result) = 0
      /\ ret.op = "export_data"
         => /\ ret.status = "ok"
            /\ Len(ret.result) = 0
            /\ ret.columns =
                  << "driver_lastname", "driver_givenname", "pickup_datetime",
                     "dropoff_datetime", "passenger_count", "pickup_loc_name",
                     "dropoff_loc_name", "trip_distance", "fare_amount" >>
      /\ ( /\ ret.op = "generate_statistics"
           /\ ret.args[1] \in {"trip", "passenger", "driver"} )
         => /\ ret.status = "ok"
            /\ DOMAIN ret.result = {}
      /\ (ret.op = "generate_statistics" /\ ret.args[1] = "all")
         => /\ ret.status = "ok"
            /\ DOMAIN ret.result = {"trip", "passenger", "driver"}
            /\ \A k \in DOMAIN ret.result : DOMAIN ret.result[k] = {}
      /\ ( /\ ret.op = "generate_odmatrix"
           /\ \/ ret.args[1].type = "None"
              \/ /\ ret.args[1].type = "tuple"
                 /\ Len(ret.args[1].value) = 2
                 /\ \A i \in 1..2 :
                       \/ ret.args[1].value[i] = None
                       \/ Parses(DateTimeTable, ret.args[1].value[i]) )
         => /\ ret.status = "ok"
            /\ ret.result.index = {}
            /\ ret.result.columns = {}

\* generate_statistics('all') has returned while no table exists
C20_Witness ==
    /\ NoTables
    /\ ret.op = "generate_statistics"
    /\ ret.args[1] = "all"
    /\ ret.status = "ok"

\* the name a left merge gives a trip for an id: the name of the dictionary
\* row with that id, or null when there is none
NameOf(ids, names, id) ==
    IF \E k \in 1..Len(ids) : ids[k] = id
    THEN names[CHOOSE k \in 1..Len(ids) : ids[k] = id]
    ELSE Null

\* C21: export_data is row preserving.  When the three tables exist, the
\* exported frame has one row per ledger row, in ascending trip_id order,
\* with the trip's own values, and each name is the name of the dictionary
\* row with the trip's id, or null when no dictionary row has that id; no
\* trip is dropped or duplicated.
C21_ExportRowPerTrip ==
    (trips.exists /\ drivers.exists /\ locations.exists) =>
      \E e \in {export_data} :
        /\ Len(e) = Len(trips.rows)
        /\ \A n \in 1..Len(trips.rows) :
             \E k \in 1..Len(trips.rows) :
               /\ Cardinality({ m \in 1..Len(trips.rows) :
                     trips.rows[m].trip_id < trips.rows[k].trip_id }) = n - 1
               /\ \E t \in {trips.rows[k]} :
                    /\ e[n].pickup_datetime = t.pickup_datetime
                    /\ e[n].dropoff_datetime = t.dropoff_datetime
                    /\ e[n].passenger_count = t.passenger_count
                    /\ e[n].trip_distance = t.trip_distance
                    /\ e[n].fare_amount = t.fare_amount
                    /\ e[n].driver_lastname =
                         NameOf([i \in 1..Len(drivers.rows) |->
                                    drivers.rows[i].driver_id],
                                [i \in 1..Len(drivers.rows) |->
                                    drivers.rows[i].last_name], t.driver_id)
                    /\ e[n].driver_givenname =
                         NameOf([i \in 1..Len(drivers.rows) |->
                                    drivers.rows[i].driver_id],
                                [i \in 1..Len(drivers.rows) |->
                                    drivers.rows[i].given_name], t.driver_id)
                    /\ e[n].pickup_loc_name =
                         NameOf([i \in 1..Len(locations.rows) |->
                                    locations.rows[i].location_id],
                                [i \in 1..Len(locations.rows) |->
                                    locations.rows[i].loc_name],
                                t.pickup_loc_id)
                    /\ e[n].dropoff_loc_name =
                         NameOf([i \in 1..Len(locations.rows) |->
                                    locations.rows[i].location_id],
                                [i \in 1..Len(locations.rows) |->
                                    locations.rows[i].loc_name],
                                t.dropoff_loc_id)

\* the ledger holds two trips, one with a pickup_loc_id that is in no
\* locations row, and the exported frame has a null pickup name for it
C21_Witness ==
    /\ trips.exists /\ drivers.exists /\ locations.exists
    /\ Len(trips.rows) >= 2
    /\ \E i \in 1..Len(trips.rows) :
          /\ trips.rows[i].pickup_loc_id \notin LocationIds
          /\ Len(export_data) = Len(trips.rows)
          /\ export_data[i].pickup_loc_name = Null
          /\ export_data[i].dropoff_loc_name # Null

\* the pickup and dropoff name of a ledger row, as the merges on the
\* locations table give them
PickupName(t) ==
    NameOf([i \in 1..Len(locations.rows) |-> locations.rows[i].location_id],
           [i \in 1..Len(locations.rows) |-> locations.rows[i].loc_name],
           t.pickup_loc_id)
DropoffName(t) ==
    NameOf([i \in 1..Len(locations.rows) |-> locations.rows[i].location_id],
           [i \in 1..Len(locations.rows) |-> locations.rows[i].loc_name],
           t.dropoff_loc_id)

\* the pickup instant of trip t lies in the inclusive date range, an absent
\* bound being open
InRange(t, date_range) ==
    date_range.type = "tuple" =>
        /\ date_range.value[1] # None =>
              Parse(DateTimeTable, t.pickup_datetime)
                 >= Parse(DateTimeTable, date_range.value[1])
        /\ date_range.value[2] # None =>
              Parse(DateTimeTable, t.pickup_datetime)
                 <= Parse(DateTimeTable, date_range.value[2])

\* C22: OD matrix values.  When generate_odmatrix has returned a matrix for
\* the present tables, for every dropoff name r and pickup name c that each
\* occur in a trip of the date range, the cell at (row r, column c) is the
\* number of trips of the range from c to r over the number of distinct
\* pickup days of those trips, and 0 when there is no such trip.
C22_ODMatrixValues ==
    ( /\ ret.op = "generate_odmatrix"
      /\ ret.status = "ok"
      /\ trips.exists /\ locations.exists )
    => \E such \in {{ i \in 1..Len(trips.rows) :
                        InRange(trips.rows[i], ret.args[1]) }} :
         \A i \in such : \A j \in such :
           \E r \in {DropoffName(trips.rows[i])} :
           \E c \in {PickupName(trips.rows[j])} :
             (r # Null /\ c # Null) =>
               \E of \in {{ k \in such : /\ DropoffName(trips.rows[k]) = r
                                         /\ PickupName(trips.rows[k]) = c }} :
               \E days \in {{ DateOf(trips.rows[k].pickup_datetime) :
                                k \in of }} :
                 /\ r \in ret.result.index
                 /\ c \in ret.result.columns
                 /\ IF of = {}
                    THEN ret.result.cell[<<r, c>>][1] = 0
                    ELSE ret.result.cell[<<r, c>>][1] * Cardinality(days)
                           = Cardinality(of) * ret.result.cell[<<r, c>>][2]
                 /\ ret.result.cell[<<r, c>>][2] # 0

\* table old is kept by table new: new exists and starts with the rows of old
Extends(old, new) ==
    old.exists =>
        /\ new.exists
        /\ Len(new.rows) >= Len(old.rows)
        /\ \A i \in 1..Len(old.rows) : new.rows[i] = old.rows[i]

\* C23: the dictionary tables are append-only and rows are immutable.  In
\* every step of add_trip, add_trips and delete_trip, the drivers and the
\* locations table keep every row they had, with its id and name, in its
\* place, and every ledger row is kept with all its values unless the step
\* is a delete_trip that returned its trip_id.
C23_AppendOnly ==
    [][ /\ Extends(drivers, drivers')
        /\ Extends(locations, locations')
        /\ trips.exists => trips'.exists
        /\ \A i \in 1..Len(trips.rows) :
              \/ \E j \in 1..Len(trips'.rows) : trips'.rows[j] = trips.rows[i]
              \/ /\ ret'.op = "delete_trip"
                 /\ ret'.status = "ok"
                 /\ ret'.trip_id = trips.rows[i].trip_id ]_vars

\* after trips by two drivers were added, one of them by add_trips, a
\* delete_trip has removed the only trip of the second driver and of its
\* locations, and the two dictionary tables still hold their rows
C23_Witness ==
    /\ ret.op = "delete_trip"
    /\ ret.status = "ok"
    /\ Len(calls) >= 2
    /\ Len(drivers.rows) = 2
    /\ Len(locations.rows) = 2
    /\ \A i \in 1..Len(trips.rows) :
          /\ trips.rows[i].driver_id = 1
          /\ trips.rows[i].pickup_loc_id = 1
          /\ trips.rows[i].dropoff_loc_id = 1
    /\ trips.rows # <<>>

\* the stored trip of history entry c was added with names equal up to case
\* to those of request a (surrounding blanks aside), with the same timestamps and passenger count, and
\* with a distance and a fare within tolerance of those of a
SameByName(c, a) ==
    /\ SameDriver(c.driver_name, DriverName(a))
    /\ lower(c.pickup_loc_name) = lower(strip(a.pickup_loc_name))
    /\ lower(c.dropoff_loc_name) = lower(strip(a.dropoff_loc_name))
    /\ c.row.pickup_datetime = a.pickup_datetime
    /\ c.row.dropoff_datetime = a.dropoff_datetime
    /\ c.row.passenger_count = Parse(IntTable, a.passenger_count)
    /\ IsClose(c.row.trip_distance, Parse(FloatTable, a.trip_distance))
    /\ IsClose(c.row.fare_amount, Parse(FloatTable, a.fare_amount))

\* C24: no false duplicates by name.  Whenever add_trip raises the duplicate
\* error for a request, the ledger holds a trip that was added with a
\* driver name, a pickup name and a dropoff name equal up to case to the
\* request's, and with its timestamps, passenger count, distance and fare.
C24_NoFalseDuplicate ==
    [][ (ret'.op = "add_trip" /\ ret'.status = "duplicate") =>
          \A a \in TripArgs :
             (ValidArgs(a) /\ add_trip(a)) =>
                \E i \in 1..Len(calls) :
                   /\ \E k \in 1..Len(trips.rows) :
                         trips.rows[k] = calls[i].row
                   /\ SameByName(calls[i], a) ]_vars

\* ids is a sequence of positive numbers in strictly increasing order
Increasing(ids) ==
    /\ \A i \in 1..Len(ids) : ids[i] > 0
    /\ \A i \in 1..Len(ids) : \A j \in 1..Len(ids) : i < j => ids[i] < ids[j]

\* C25: ids are unique and increasing within every table.  In each of the
\* drivers, locations and trips tables the ids are positive, pairwise
\* distinct and strictly increasing in row order, so the id of the last row
\* is the largest id of the table.
C25_IdsIncreasing ==
    /\ Increasing([i \in 1..Len(drivers.rows) |-> drivers.rows[i].driver_id])
    /\ Increasing([i \in 1..Len(locations.rows) |->
                     locations.rows[i].location_id])
    /\ Increasing([i \in 1..Len(trips.rows) |-> trips.rows[i].trip_id])
    /\ \A i \in 1..Len(trips.rows) :
          trips.rows[i].trip_id <= trips.rows[Len(trips.rows)].trip_id

\* two drivers, two locations, and a ledger of two rows with a gap between
\* their ids, left by a delete_trip
C25_Witness ==
    /\ Len(drivers.rows) = 2
    /\ Len(locations.rows) = 2
    /\ Len(trips.rows) = 2
    /\ ret.op = "delete_trip"
    /\ ret.status = "ok"
    /\ trips.rows[2].trip_id > trips.rows[1].trip_id + 1

\* the value row r is ordered by under criteria field key: the parsed
\* instant of a date, the number otherwise
OrderValue(r, key) ==
    IF key \in {"pickup_datetime", "dropoff_datetime"}
    THEN Parse(DateTimeTable, r[key])
    ELSE r[key]

\* row a comes no later than row b in the lexicographic order of the fields
\* of kw: on the first field where they differ, a has the smaller value
LexLeq(a, b, kw) ==
    \A i \in 1..Len(kw) :
        (\A m \in 1..(i - 1) :
            OrderValue(a, kw[m].key) = OrderValue(b, kw[m].key))
        => OrderValue(a, kw[i].key) <= OrderValue(b, kw[i].key)

\* C26: search_trips orders its result by the criteria fields.  The rows of
\* a returned frame are in ascending lexicographic order of the criteria
\* fields, in the order the criteria were passed, the two dates compared as
\* instants and not as their stored strings.
C26_SearchOrder ==
    ( /\ ret.op = "search_trips"
      /\ ret.status = "ok"
      /\ ret.type = "DataFrame" )
    => \A i \in 1..Len(ret.result) : \A j \in 1..Len(ret.result) :
          i < j => LexLeq(ret.result[i], ret.result[j], ret.args)

\* a search on the fare and then the pickup date has returned two trips of
\* the same fare, the later added first: the first was picked up at 08:00
\* on 01-01-2020 and the second at 07:00 on 02-01-2020, which is their
\* order in time and the reverse of the order of their stored strings
C26_Witness ==
    /\ ret.op = "search_trips"
    /\ ret.status = "ok"
    /\ ret.type = "DataFrame"
    /\ Len(ret.args) = 2
    /\ ret.args[1].key = "fare_amount"
    /\ ret.args[2].key = "pickup_datetime"
    /\ \E i \in 1..Len(ret.result) : \E j \in 1..Len(ret.result) :
          /\ i < j
          /\ ret.result[i].fare_amount = ret.result[j].fare_amount
          /\ ret.result[i].pickup_datetime = "08:00:00,01-01-2020"
          /\ ret.result[j].pickup_datetime = "07:00:00,02-01-2020"
          /\ ret.result[i].trip_id > ret.result[j].trip_id

\* the operations that only read the tables
ReadOps ==
    { "search_trips", "export_data", "generate_statistics",
      "generate_odmatrix" }

\* C27: read operations have no effect on the store.  A step of
\* search_trips, export_data, generate_statistics or generate_odmatrix,
\* whether it returns or raises, leaves the drivers, locations and trips
\* tables as they were, an absent table staying absent.
C27_ReadsLeaveStore ==
    [][ ret'.op \in ReadOps =>
          /\ drivers' = drivers
          /\ locations' = locations
          /\ trips' = trips ]_vars

\* a read has raised while no table exists, and none was created
C27_Witness ==
    /\ ret.op \in ReadOps
    /\ ret.status = "SakayDBError"
    /\ NoTables

\* the calendar: the date and the day of the week of the pickup timestamps
\* that occur
Calendar ==
    [ s \in { "08:00:00,01-01-2020", "09:30:00,01-01-2020",
              "07:00:00,02-01-2020", "08:00:00,08-01-2020" } |->
        CASE s = "08:00:00,01-01-2020" ->
                 [date |-> "01-01-2020", day |-> "Wednesday"]
          [] s = "09:30:00,01-01-2020" ->
                 [date |-> "01-01-2020", day |-> "Wednesday"]
          [] s = "07:00:00,02-01-2020" ->
                 [date |-> "02-01-2020", day |-> "Thursday"]
          [] s = "08:00:00,08-01-2020" ->
                 [date |-> "08-01-2020", day |-> "Wednesday"] ]

\* C28: trip statistic.  For a present ledger, generate_statistics('trip')
\* has exactly the days of the week on which a trip was picked up as keys,
\* and maps each to the number of trips picked up on that day of the week
\* over the number of distinct dates among them.
C28_TripStatistic ==
    ( /\ ret.op = "generate_statistics"
      /\ ret.args[1] = "trip"
      /\ trips.exists )
    => /\ ret.status = "ok"
       /\ DOMAIN ret.result =
             { Calendar[trips.rows[i].pickup_datetime].day :
                 i \in 1..Len(trips.rows) }
       /\ \A W \in DOMAIN ret.result :
             \E on \in {{ i \in 1..Len(trips.rows) :
                           Calendar[trips.rows[i].pickup_datetime].day = W }} :
             \E dates \in {{ Calendar[trips.rows[i].pickup_datetime].date :
                              i \in on }} :
                /\ ret.result[W][2] # 0
                /\ ret.result[W][1] * Cardinality(dates)
                      = Cardinality(on) * ret.result[W][2]

\* the statistic of a ledger with three trips on two Wednesdays, or with
\* two trips on two Wednesdays and one on a Thursday
C28_Witness ==
    /\ ret.op = "generate_statistics"
    /\ ret.args[1] = "trip"
    /\ ret.status = "ok"
    /\ Len(trips.rows) = 3
    /\ "Wednesday" \in DOMAIN ret.result
    /\ ret.result["Wednesday"][2] = 2

\* the two concurrent calls are over
BothDone == \A p \in Procs : inflight[p].pc = "done"

\* the two calls ran strictly one after the other: neither did its reads
\* while the other was between its reads and its writes
Sequentially == \A p \in Procs : inflight[p].alone

\* both calls returned the same trip_id
SameTripId ==
    /\ \A p \in Procs : inflight[p].status = "ok"
    /\ inflight["p"].trip_id = inflight["q"].trip_id

\* the row a call wrote is no longer in the ledger
RowOverwritten ==
    \E p \in Procs :
       /\ inflight[p].status = "ok"
       /\ \A i \in 1..Len(trips.rows) :
             trips.rows[i] # TripRow(inflight[p].trip_id,
                                     inflight[p].plan[1].trip[1])

\* two identical trips both passed the duplicate check
BothPassed ==
    /\ \A p \in Procs : inflight[p].status = "ok"
    /\ inflight["p"].args = inflight["q"].args

\* C29: lost update under interleaving.  Two add_trip calls whose reads and
\* writes interleave can return the same trip_id, overwrite each other's
\* row, or both store the same trip; when the two calls run strictly one
\* after the other, none of the three happens.
C29_SequentialSafe ==
    (BothDone /\ Sequentially) =>
        ~(SameTripId \/ RowOverwritten \/ BothPassed)

====
